---- MODULE Spec2Model ----
(***************************************************************************)
(* State-machine model of src/bot.py: the entry ledger (ENTRIES), the form *)
(* handlers, the status buttons, the admin commands, the roster message    *)
(* (update_schedule_panel) and the sticky control message                  *)
(* (ensure_sticky_bottom).  A handler is a task: its synchronous code up   *)
(* to the next await is one step, and the awaited platform call takes      *)
(* effect and returns in the step that resumes the task.                   *)
(***************************************************************************)
EXTENDS Integers, Sequences, FiniteSets, TLC

\* ------------------------------------------------------------- bounds
\* handlers that may be in flight at once
MaxTasks == 2
\* message identifiers the platform hands out (1..MaxId); a send waits once
\* they are used up
MaxId == 5
\* last clock value (seconds); the clock starts at StartTime
MaxTime == 9

\* ---------------------------------------------------------- constants
STICKY_COOLDOWN_SEC == 3
\* time.time() at process start: at least one cooldown after the 0.0 default
StartTime == STICKY_COOLDOWN_SEC

Users == {"u1", "u2"}
\* who presses buttons and issues commands, and who of them holds
\* ENTRY_MANAGER_ROLE_ID
Actors == {"mgr", "guest"}
Managers == {"mgr"}
Channels == {"c1"}
Names == {"Taro"}
Referrers == {"Hanako"}
Texts == {"next week"}

TIME_OPTIONS == <<"0-3", "3-6", "6-9", "9-12", "12-15", "15-20", "20-0", "anytime", "other">>
SLOT_ORDER == <<"0-3", "3-6", "6-9", "9-12", "12-15", "15-20", "20-0", "anytime", "other">>
BLOCK_STATUSES == {"active", "interviewed"}

\* the selections a user makes in the select menu (1 or 2 values)
SlotChoices == {{"0-3"}, {"0-3", "20-0"}, {"other"}, {"other", "0-3"}}
\* the slot argument of /entry_delete ("none": not given)
SlotFilters == {"none", "0-3"}

None == "none"
NoData == [name |-> None, referrer |-> None, custom_time |-> None]
NoContent == [total |-> -1, fields |-> <<>>]

VARIABLES
    ENTRIES,          \* the ledger: a sequence of entry records
    TEMP_ENTRY,       \* user -> form data of the session in progress, or NoData
    STICKY_STATE,     \* channel -> id of the bound control message, 0: no binding
    SCHEDULE_STATE,   \* id of the bound roster message, 0: no binding
    disk,             \* the three durable records
    chan,             \* channel -> sequence of the live messages, oldest first
    roster,           \* the live messages of the schedule channel: set of [id, content]
    nextId,           \* next message identifier of the platform
    now,              \* time.time()
    cooldown,         \* _sticky_cooldown: channel -> time of the last accepted pass
    locked,           \* _channel_locks: channel -> the lock is held
    tasks,            \* task slot -> the handler suspended there
    reply             \* the last ephemeral response sent to an interaction

vars == <<ENTRIES, TEMP_ENTRY, STICKY_STATE, SCHEDULE_STATE, disk, chan, roster,
          nextId, now, cooldown, locked, tasks, reply>>

TaskIds == 1..MaxTasks

Idle == [kind |-> "idle", pc |-> "idle", ch |-> None, user |-> None, vals |-> <<>>,
         data |-> NoData, mid |-> 0, content |-> NoContent, clean |-> TRUE,
         pre |-> [synced |-> FALSE, binding |-> 0, ver |-> 0, n |-> 0]]

\* ------------------------------------------------------------ helpers
Range(s) == {s[i] : i \in 1..Len(s)}

Last(s) == s[Len(s)]

\* ------------------------------------------------------ ledger queries
\* a wrong duplicate check, blocking only owners already interviewed: C2 must
\* fail when user_has_blocking_entries is replaced by it
BlockedOnlyWhenInterviewed(uid) ==
    \E i \in 1..Len(ENTRIES) :
        ENTRIES[i].user_id = uid /\ ENTRIES[i].status = "interviewed"

\* any(e.user_id == uid and e.status in BLOCK_STATUSES for e in ENTRIES)
user_has_blocking_entries(uid) ==
    \E i \in 1..Len(ENTRIES) :
        ENTRIES[i].user_id = uid /\ ENTRIES[i].status \in BLOCK_STATUSES

\* next((e for e in ENTRIES if e.message_id == mid), None): index of the first
\* record of the group, 0 when there is none
FirstEntry(mid) ==
    LET I == {i \in 1..Len(ENTRIES) : ENTRIES[i].message_id = mid}
    IN IF I = {} THEN 0 ELSE CHOOSE i \in I : \A j \in I : i <= j

\* ------------------------------------------------------------- render
\* stable insertion of e into a sequence sorted by ts (list.sort is stable)
RECURSIVE InsertByTs(_, _)
InsertByTs(s, e) ==
    IF s = <<>> THEN <<e>>
    ELSE IF Last(s).ts <= e.ts THEN Append(s, e)
    ELSE Append(InsertByTs(SubSeq(s, 1, Len(s) - 1), e), Last(s))

RECURSIVE SortByTs(_)
SortByTs(s) ==
    IF s = <<>> THEN <<>>
    ELSE InsertByTs(SortByTs(SubSeq(s, 1, Len(s) - 1)), Last(s))

\* buckets that take the entries of every status
GroupAllStatuses(E) ==
    [k \in Range(SLOT_ORDER) |->
        SortByTs(SelectSeq(E, LAMBDA e : e.slot_key = k))]

\* buckets: slot key -> the active entries of that slot, sorted by ts
_group_entries_by_slot(E) ==
    [k \in Range(SLOT_ORDER) |->
        SortByTs(SelectSeq(E, LAMBDA e : e.status = "active" /\ e.slot_key = k))]

\* one line of a field: name, mention, link, and the free text under "other"
EmbedLine(key, e) ==
    [name |-> e.name, uid |-> e.user_id, link |-> <<e.channel_id, e.message_id>>,
     text |-> IF key = "other" /\ e.custom_time # None THEN e.custom_time ELSE None]

\* the embed: the count in the title and one field per slot of SLOT_ORDER
\* (the 1024-character cut of a field needs more than seven lines in one
\* bucket; ledgers here stay below that)
_build_schedule_embed(E) ==
    LET buckets == _group_entries_by_slot(E)
    IN [total |-> Len(SelectSeq(E, LAMBDA e : e.status = "active")),
        fields |-> [k \in 1..Len(SLOT_ORDER) |->
            [key |-> SLOT_ORDER[k],
             lines |-> [j \in 1..Len(buckets[SLOT_ORDER[k]]) |->
                          EmbedLine(SLOT_ORDER[k], buckets[SLOT_ORDER[k]][j])]]]]

\* ----------------------------------------------------------- platform
MsgIds(seq) == {seq[i].id : i \in 1..Len(seq)}
Exists(ch, id) == id \in MsgIds(chan[ch])
RemoveMsg(seq, id) == SelectSeq(seq, LAMBDA m : m.id # id)
RosterIds == {m.id : m \in roster}
\* the live control messages of channel ch
StickyIds(ch) == {chan[ch][i].id : i \in {j \in 1..Len(chan[ch]) : chan[ch][j].kind = "sticky"}}
\* the result of a call on message id: a message that is gone answers not-found
Outcome(exists, res) == IF exists THEN res ELSE "notfound"

\* --------------------------------------------------------- durable files
\* str(k) of a channel id, the key type of a JSON object, and int(k) back
KeyStr(ch) == <<"str", ch>>
KeyInt(k) == k[2]

\* save_sticky: the file holds the bound channels only, under string keys
save_sticky(S) ==
    [k \in {KeyStr(ch) : ch \in {c \in Channels : S[c] # 0}} |-> S[KeyInt(k)]]

\* the file read without int(k): a lookup by channel id finds no string key
LoadStickyRaw(D) ==
    [ch \in Channels |-> IF <<"int", ch>> \in DOMAIN D THEN D[<<"int", ch>>] ELSE 0]

\* load_states, sticky part: integer keys again; a channel absent from the
\* file has no binding
load_sticky(D) ==
    [ch \in Channels |-> IF KeyStr(ch) \in DOMAIN D THEN D[KeyStr(ch)] ELSE 0]

\* ---------------------------------------------------------- task slots
FreeSlots == {t \in TaskIds : tasks[t].pc = "idle"}
FreeSlot == CHOOSE t \in FreeSlots : \A s \in FreeSlots : t <= s

\* a finished step: the task leaves its slot when the handler returned or raised
Settle(rec) == IF rec.pc \in {"return", "raise"} THEN Idle ELSE rec
Raise(rec) == [rec EXCEPT !.pc = "raise"]
Return(rec) == [rec EXCEPT !.pc = "return"]
\* the response a handler sends last, before it returns
FinalReply(rec) ==
    CASE rec.kind = "status" -> "updated"
      [] rec.kind = "delete" -> "deleted"
      [] rec.kind = "refresh" -> "refreshed"
      [] rec.kind = "disarm" -> "disarmed"
      [] OTHER -> reply
ReplyOf(rec) == IF rec.pc = "return" THEN FinalReply(rec) ELSE reply

\* --------------------------------------- update_schedule_panel: entry
\* the bound roster message is live and shows the render of ledger E
Synced(E) ==
    /\ SCHEDULE_STATE # 0
    /\ [id |-> SCHEDULE_STATE, content |-> _build_schedule_embed(E)] \in roster

\* a count that every ledger mutation raises: records appended, and records
\* that left "active"
LedgerVersion(E) == Len(E) + Len(SelectSeq(E, LAMBDA e : e.status # "active"))

\* what a sync remembers of the state it started in (read by the statements
\* about two syncs in a row only)
PreSync(E) ==
    IF Synced(E)
    THEN [synced |-> TRUE, binding |-> SCHEDULE_STATE, ver |-> LedgerVersion(E),
          n |-> Cardinality(roster)]
    ELSE [synced |-> FALSE, binding |-> 0, ver |-> 0, n |-> 0]

\* a wrong ensure_schedule_message that ignores the binding and always sends:
\* C8 must fail when SyncEnter is replaced by it
SyncAlwaysSends(rec, E) ==
    [rec EXCEPT !.pc = "sched_send", !.content = _build_schedule_embed(E),
                !.clean = TRUE, !.pre = PreSync(E)]

\* ensure_schedule_message up to its first await: fetch the bound message, or
\* send a new one with the embed built now
SyncEnter(rec, E) ==
    IF SCHEDULE_STATE # 0
    THEN [rec EXCEPT !.pc = "sched_fetch", !.mid = SCHEDULE_STATE, !.clean = TRUE,
                     !.pre = PreSync(E)]
    ELSE [rec EXCEPT !.pc = "sched_send", !.content = _build_schedule_embed(E),
                     !.clean = TRUE, !.pre = PreSync(E)]

\* ---------------------------------------- ensure_sticky_bottom: entry
\* what the caller does after ensure_sticky_bottom returned
AfterSticky(rec, E) ==
    IF rec.kind = "post_panel" THEN SyncEnter([rec EXCEPT !.mid = 0], E)
    ELSE Return(rec)

InCooldown(ch) == now - cooldown[ch] < STICKY_COOLDOWN_SEC

\* ensure_sticky_bottom without the per-channel lock: the body is entered at once
StickyEnterUnlocked(rec, ch, E) ==
    IF InCooldown(ch)
    THEN [rec |-> AfterSticky(rec, E), cd |-> cooldown, lk |-> locked]
    ELSE [rec |-> [rec EXCEPT !.pc = "sticky_history", !.ch = ch, !.clean = TRUE],
          cd |-> [cooldown EXCEPT ![ch] = now],
          lk |-> [locked EXCEPT ![ch] = TRUE]]

\* ensure_sticky_bottom up to its first await: the cooldown check, the stamp,
\* and the lock (taken at once when free)
StickyEnter(rec, ch, E) ==
    IF InCooldown(ch)
    THEN [rec |-> AfterSticky(rec, E), cd |-> cooldown, lk |-> locked]
    ELSE IF locked[ch]
    THEN [rec |-> [rec EXCEPT !.pc = "sticky_wait", !.ch = ch, !.clean = TRUE],
          cd |-> [cooldown EXCEPT ![ch] = now], lk |-> locked]
    ELSE [rec |-> [rec EXCEPT !.pc = "sticky_history", !.ch = ch, !.clean = TRUE],
          cd |-> [cooldown EXCEPT ![ch] = now],
          lk |-> [locked EXCEPT ![ch] = TRUE]]

\* -------------------------------------------------------- form steps
\* TEMP_ENTRY.pop, the panel embed, and target_channel.send issued
PostPanelEnter(u, ch, vals) ==
    LET data == TEMP_ENTRY[u]
    IN /\ TEMP_ENTRY' = [TEMP_ENTRY EXCEPT ![u] = NoData]
       /\ IF data = NoData
          THEN /\ reply' = "no_session"
               /\ UNCHANGED tasks
          ELSE /\ FreeSlots # {}
               /\ tasks' = [tasks EXCEPT ![FreeSlot] =
                     [Idle EXCEPT !.kind = "post_panel", !.pc = "panel_send",
                                  !.ch = ch, !.user = u, !.vals = vals, !.data = data]]
               /\ UNCHANGED reply

\* BasicInfoModal.on_submit
BasicInfoSubmit(u, n, r) ==
    /\ IF user_has_blocking_entries(u)
       THEN /\ reply' = "duplicate"
            /\ UNCHANGED TEMP_ENTRY
       ELSE /\ TEMP_ENTRY' = [TEMP_ENTRY EXCEPT ![u] =
                                [name |-> n, referrer |-> r, custom_time |-> None]]
            /\ reply' = "select_time"
    /\ UNCHANGED <<ENTRIES, STICKY_STATE, SCHEDULE_STATE, disk, chan, roster, nextId,
                   now, cooldown, locked, tasks>>

\* TimeSelect.callback without the test that "other" is chosen alone
TimeSelectAnyOther(u, ch, values) ==
    /\ IF user_has_blocking_entries(u)
       THEN /\ reply' = "duplicate"
            /\ UNCHANGED <<TEMP_ENTRY, tasks>>
       ELSE IF "other" \in values
       THEN /\ reply' = "modal"
            /\ UNCHANGED <<TEMP_ENTRY, tasks>>
       ELSE PostPanelEnter(u, ch, SelectSeq(TIME_OPTIONS, LAMBDA v : v \in values))
    /\ UNCHANGED <<ENTRIES, STICKY_STATE, SCHEDULE_STATE, disk, chan, roster, nextId,
                   now, cooldown, locked>>

\* TimeSelect.callback (with post_panel_and_confirm up to its first await)
TimeSelectCallback(u, ch, values) ==
    /\ IF user_has_blocking_entries(u)
       THEN /\ reply' = "duplicate"
            /\ UNCHANGED <<TEMP_ENTRY, tasks>>
       ELSE IF "other" \in values /\ Cardinality(values) > 1
       THEN /\ reply' = "other_alone"
            /\ UNCHANGED <<TEMP_ENTRY, tasks>>
       ELSE IF "other" \in values
       THEN /\ reply' = "modal"
            /\ UNCHANGED <<TEMP_ENTRY, tasks>>
       ELSE PostPanelEnter(u, ch, SelectSeq(TIME_OPTIONS, LAMBDA v : v \in values))
    /\ UNCHANGED <<ENTRIES, STICKY_STATE, SCHEDULE_STATE, disk, chan, roster, nextId,
                   now, cooldown, locked>>

\* CustomTimeModal.on_submit (with post_panel_and_confirm up to its first await)
CustomTimeSubmit(u, ch, text) ==
    /\ IF user_has_blocking_entries(u)
       THEN /\ reply' = "duplicate"
            /\ UNCHANGED <<TEMP_ENTRY, tasks>>
       ELSE IF TEMP_ENTRY[u] = NoData
       THEN /\ reply' = "no_session"
            /\ UNCHANGED <<TEMP_ENTRY, tasks>>
       ELSE /\ FreeSlots # {}
            /\ TEMP_ENTRY' = [TEMP_ENTRY EXCEPT ![u] = NoData]
            /\ tasks' = [tasks EXCEPT ![FreeSlot] =
                  [Idle EXCEPT !.kind = "post_panel", !.pc = "panel_send",
                               !.ch = ch, !.user = u, !.vals = <<"other">>,
                               !.data = [TEMP_ENTRY[u] EXCEPT !.custom_time = text]]]
            /\ UNCHANGED reply
    /\ UNCHANGED <<ENTRIES, STICKY_STATE, SCHEDULE_STATE, disk, chan, roster, nextId,
                   now, cooldown, locked>>

\* add_entry_record: the record appended for one chosen slot
EntryRecord(ch, mid, u, data, val, t) ==
    [channel_id |-> ch, message_id |-> mid, user_id |-> u, name |-> data.name,
     referrer |-> data.referrer, slot_key |-> val,
     custom_time |-> IF val = "other" THEN data.custom_time ELSE None,
     status |-> "active", ts |-> t]
NewEntry(ch, mid, u, data, val) == EntryRecord(ch, mid, u, data, val, now)

\* post_panel_and_confirm resumed after target_channel.send: one record per
\* chosen value, each saved, and the confirmation issued
PanelSendDone(t, res) ==
    LET rec == tasks[t]
        new == [rec EXCEPT !.pc = "panel_respond"]
    IN /\ rec.pc = "panel_send"
       /\ IF res = "ok"
          THEN /\ nextId <= MaxId
               /\ chan' = [chan EXCEPT ![rec.ch] =
                     Append(@, [id |-> nextId, kind |-> "panel", disabled |-> FALSE])]
               /\ nextId' = nextId + 1
               /\ ENTRIES' = ENTRIES \o
                     [k \in 1..Len(rec.vals) |->
                        NewEntry(rec.ch, nextId, rec.user, rec.data, rec.vals[k])]
               /\ disk' = [disk EXCEPT !.entries = ENTRIES']
               /\ tasks' = [tasks EXCEPT ![t] = new]
          ELSE /\ tasks' = [tasks EXCEPT ![t] = Settle(Raise(rec))]
               /\ UNCHANGED <<chan, nextId, ENTRIES, disk>>
       /\ UNCHANGED <<TEMP_ENTRY, STICKY_STATE, SCHEDULE_STATE, roster, now, cooldown,
                      locked, reply>>

\* post_panel_and_confirm resumed after the confirmation: ensure_sticky_bottom
\* of the target channel, then update_schedule_panel
PanelRespondDone(t, res) ==
    LET rec == tasks[t]
        go == StickyEnter(rec, rec.ch, ENTRIES)
    IN /\ rec.pc = "panel_respond"
       /\ IF res = "ok"
          THEN /\ reply' = "sent"
               /\ tasks' = [tasks EXCEPT ![t] = Settle(go.rec)]
               /\ cooldown' = go.cd
               /\ locked' = go.lk
          ELSE /\ tasks' = [tasks EXCEPT ![t] = Settle(Raise(rec))]
               /\ UNCHANGED <<reply, cooldown, locked>>
       /\ UNCHANGED <<ENTRIES, TEMP_ENTRY, STICKY_STATE, SCHEDULE_STATE, disk, chan,
                      roster, nextId, now>>

\* ------------------------------------------- ensure_sticky_bottom: steps
\* async with lock: a waiter takes the lock once it is free
StickyLockAcquire(t) ==
    LET rec == tasks[t]
    IN /\ rec.pc = "sticky_wait"
       /\ ~locked[rec.ch]
       /\ locked' = [locked EXCEPT ![rec.ch] = TRUE]
       /\ tasks' = [tasks EXCEPT ![t] = [rec EXCEPT !.pc = "sticky_history"]]
       /\ UNCHANGED <<ENTRIES, TEMP_ENTRY, STICKY_STATE, SCHEDULE_STATE, disk, chan,
                      roster, nextId, now, cooldown, reply>>

\* the pass without its test for "already last": the bound message is always
\* replaced
StickyHistoryAlwaysReplaces(t, res) ==
    LET rec == tasks[t]
        cur == STICKY_STATE[rec.ch]
        new == IF res # "ok" THEN Raise([rec EXCEPT !.clean = FALSE])
               ELSE IF cur # 0
               THEN [rec EXCEPT !.pc = "del_fetch", !.mid = cur]
               ELSE [rec EXCEPT !.pc = "sticky_send", !.mid = 0]
    IN /\ rec.pc = "sticky_history"
       /\ tasks' = [tasks EXCEPT ![t] = Settle(new)]
       /\ locked' = IF new.pc \in {"del_fetch", "sticky_send"} THEN locked
                    ELSE [locked EXCEPT ![rec.ch] = FALSE]
       /\ reply' = ReplyOf(new)
       /\ UNCHANGED <<ENTRIES, TEMP_ENTRY, STICKY_STATE, SCHEDULE_STATE, disk, chan,
                      roster, nextId, now, cooldown>>

\* resumed after channel.history(limit=1): already last, or delete the bound
\* message, or post at once; an exception leaves through the async with
StickyHistoryDone(t, res) ==
    LET rec == tasks[t]
        last == IF chan[rec.ch] = <<>> THEN 0 ELSE Last(chan[rec.ch]).id
        cur == STICKY_STATE[rec.ch]
        new == IF res # "ok" THEN Raise([rec EXCEPT !.clean = FALSE])
               ELSE IF last # 0 /\ cur # 0 /\ last = cur THEN AfterSticky(rec, ENTRIES)
               ELSE IF cur # 0
               THEN [rec EXCEPT !.pc = "del_fetch", !.mid = cur]
               ELSE [rec EXCEPT !.pc = "sticky_send", !.mid = 0]
    IN /\ rec.pc = "sticky_history"
       /\ tasks' = [tasks EXCEPT ![t] = Settle(new)]
       /\ locked' = IF new.pc \in {"del_fetch", "sticky_send"} THEN locked
                    ELSE [locked EXCEPT ![rec.ch] = FALSE]
       /\ reply' = ReplyOf(new)
       /\ UNCHANGED <<ENTRIES, TEMP_ENTRY, STICKY_STATE, SCHEDULE_STATE, disk, chan,
                      roster, nextId, now, cooldown>>

\* what follows delete_message_if_exists in its caller
AfterDelete(rec) ==
    IF rec.kind = "disarm" THEN Return(rec) ELSE [rec EXCEPT !.pc = "sticky_send"]

\* delete_message_if_exists resumed after fetch_message: every exception returns
DeleteFetchDone(t, res) ==
    LET rec == tasks[t]
        out == Outcome(Exists(rec.ch, rec.mid), res)
        new == IF out = "ok" THEN [rec EXCEPT !.pc = "del_delete"]
               ELSE AfterDelete([rec EXCEPT !.clean = FALSE])
    IN /\ rec.pc = "del_fetch"
       /\ tasks' = [tasks EXCEPT ![t] = Settle(new)]
       /\ reply' = ReplyOf(new)
       /\ UNCHANGED <<ENTRIES, TEMP_ENTRY, STICKY_STATE, SCHEDULE_STATE, disk, chan,
                      roster, nextId, now, cooldown, locked>>

\* delete_message_if_exists resumed after msg.delete: an exception is passed over
DeleteDeleteDone(t, res) ==
    LET rec == tasks[t]
        out == Outcome(Exists(rec.ch, rec.mid), res)
        new == AfterDelete(IF out = "ok" THEN rec ELSE [rec EXCEPT !.clean = FALSE])
    IN /\ rec.pc = "del_delete"
       /\ chan' = IF out = "ok" THEN [chan EXCEPT ![rec.ch] = RemoveMsg(@, rec.mid)]
                  ELSE chan
       /\ tasks' = [tasks EXCEPT ![t] = Settle(new)]
       /\ reply' = ReplyOf(new)
       /\ UNCHANGED <<ENTRIES, TEMP_ENTRY, STICKY_STATE, SCHEDULE_STATE, disk, roster,
                      nextId, now, cooldown, locked>>

\* resumed after post_sticky_message: the new id is bound and saved; the lock
\* is released
StickySendDone(t, res) ==
    LET rec == tasks[t]
        new == AfterSticky(IF res = "ok" THEN rec ELSE [rec EXCEPT !.clean = FALSE],
                           ENTRIES)
    IN /\ rec.pc = "sticky_send"
       /\ IF res = "ok"
          THEN /\ nextId <= MaxId
               /\ chan' = [chan EXCEPT ![rec.ch] =
                     Append(@, [id |-> nextId, kind |-> "sticky", disabled |-> FALSE])]
               /\ nextId' = nextId + 1
               /\ STICKY_STATE' = [STICKY_STATE EXCEPT ![rec.ch] = nextId]
               /\ disk' = [disk EXCEPT !.sticky = save_sticky(STICKY_STATE')]
          ELSE UNCHANGED <<chan, nextId, STICKY_STATE, disk>>
       /\ locked' = [locked EXCEPT ![rec.ch] = FALSE]
       /\ tasks' = [tasks EXCEPT ![t] = Settle(new)]
       /\ reply' = ReplyOf(new)
       /\ UNCHANGED <<ENTRIES, TEMP_ENTRY, SCHEDULE_STATE, roster, now, cooldown>>

\* ------------------------------------------ update_schedule_panel: steps
\* ensure_schedule_message resumed after fetch_message: the message is edited;
\* not-found and every other exception fall through to channel.send
SchedFetchDone(t, res) ==
    LET rec == tasks[t]
        out == Outcome(rec.mid \in RosterIds, res)
        new == IF out = "ok"
               THEN [rec EXCEPT !.pc = "sched_edit",
                                !.content = _build_schedule_embed(ENTRIES)]
               ELSE [rec EXCEPT !.pc = "sched_send", !.clean = FALSE,
                                !.content = _build_schedule_embed(ENTRIES)]
    IN /\ rec.pc = "sched_fetch"
       /\ tasks' = [tasks EXCEPT ![t] = new]
       /\ UNCHANGED <<ENTRIES, TEMP_ENTRY, STICKY_STATE, SCHEDULE_STATE, disk, chan,
                      roster, nextId, now, cooldown, locked, reply>>

\* ensure_schedule_message resumed after channel.send: the new message is
\* bound and saved, and update_schedule_panel edits it
SchedSendDone(t, res) ==
    LET rec == tasks[t]
        new == IF res = "ok"
               THEN [rec EXCEPT !.pc = "sched_edit", !.mid = nextId,
                                !.content = _build_schedule_embed(ENTRIES)]
               ELSE Return([rec EXCEPT !.clean = FALSE])
    IN /\ rec.pc = "sched_send"
       /\ IF res = "ok"
          THEN /\ nextId <= MaxId
               /\ roster' = roster \cup {[id |-> nextId, content |-> rec.content]}
               /\ nextId' = nextId + 1
               /\ SCHEDULE_STATE' = nextId
               /\ disk' = [disk EXCEPT !.schedule = nextId]
          ELSE UNCHANGED <<roster, nextId, SCHEDULE_STATE, disk>>
       /\ tasks' = [tasks EXCEPT ![t] = Settle(new)]
       /\ reply' = ReplyOf(new)
       /\ UNCHANGED <<ENTRIES, TEMP_ENTRY, STICKY_STATE, chan, now, cooldown, locked>>

\* update_schedule_panel resumed after msg.edit
SchedEditDone(t, res) ==
    LET rec == tasks[t]
        out == Outcome(rec.mid \in RosterIds, res)
        new == Return(IF out = "ok" THEN rec ELSE [rec EXCEPT !.clean = FALSE])
    IN /\ rec.pc = "sched_edit"
       /\ roster' = IF out = "ok"
                    THEN {m \in roster : m.id # rec.mid}
                         \cup {[id |-> rec.mid, content |-> rec.content]}
                    ELSE roster
       /\ tasks' = [tasks EXCEPT ![t] = Settle(new)]
       /\ reply' = ReplyOf(new)
       /\ UNCHANGED <<ENTRIES, TEMP_ENTRY, STICKY_STATE, SCHEDULE_STATE, disk, chan,
                      nextId, now, cooldown, locked>>

\* ------------------------------------------------------ status buttons
\* EntryStatusControlView._has_perm
_has_perm(a) == a \in Managers

\* the channel holding message m
ChanOf(m) == CHOOSE ch \in Channels : Exists(ch, m)
\* an entry panel whose buttons can be pressed
Pressable(m) ==
    \E ch \in Channels : \E i \in 1..Len(chan[ch]) :
        chan[ch][i].id = m /\ chan[ch][i].kind = "panel" /\ ~chan[ch][i].disabled

\* a wrong "interviewed": only the first group of the user that still has an
\* active record is marked; C3 must fail when MarkInterviewed is replaced by it
MarkFirstGroupOnly(E, uid) ==
    LET I == {i \in 1..Len(E) : E[i].user_id = uid /\ E[i].status = "active"}
        first == CHOOSE i \in I : \A j \in I : i <= j
    IN [i \in 1..Len(E) |->
          IF I # {} /\ E[i].message_id = E[first].message_id /\ E[i].status = "active"
          THEN [E[i] EXCEPT !.status = "interviewed"] ELSE E[i]]

\* a wrong "no_response": the active records of every group of the owner of
\* the message are marked; C4 must fail when MarkNoResponse is replaced by it
MarkOwnerWide(E, mid) ==
    LET owners == {E[i].user_id : i \in {j \in 1..Len(E) : E[j].message_id = mid}}
    IN [i \in 1..Len(E) |->
          IF E[i].user_id \in owners /\ E[i].status = "active"
          THEN [E[i] EXCEPT !.status = "no_response"] ELSE E[i]]

\* status_key "interviewed": every active record of the user
MarkInterviewed(E, uid) ==
    [i \in 1..Len(E) |->
        IF E[i].user_id = uid /\ E[i].status = "active"
        THEN [E[i] EXCEPT !.status = "interviewed"] ELSE E[i]]

\* status_key "no_response": every active record of the message
MarkNoResponse(E, mid) ==
    [i \in 1..Len(E) |->
        IF E[i].message_id = mid /\ E[i].status = "active"
        THEN [E[i] EXCEPT !.status = "no_response"] ELSE E[i]]

\* the target check of _handle_status_change: the first record of the message
\* exists and is active
TargetFound(m) == FirstEntry(m) # 0 /\ ENTRIES[FirstEntry(m)].status = "active"

\* _handle_status_change up to its first await (msg.edit or the refusal)
HandleStatusChange(a, m, key) ==
    /\ Pressable(m)
    /\ IF ~_has_perm(a)
       THEN /\ reply' = "denied"
            /\ UNCHANGED <<ENTRIES, disk, tasks>>
       ELSE IF ~TargetFound(m)
       THEN /\ reply' = "not_found"
            /\ UNCHANGED <<ENTRIES, disk, tasks>>
       ELSE /\ FreeSlots # {}
            /\ ENTRIES' = IF key = "interviewed"
                          THEN MarkInterviewed(ENTRIES, ENTRIES[FirstEntry(m)].user_id)
                          ELSE MarkNoResponse(ENTRIES, m)
            /\ disk' = [disk EXCEPT !.entries = ENTRIES']
            /\ tasks' = [tasks EXCEPT ![FreeSlot] =
                  [Idle EXCEPT !.kind = "status", !.pc = "status_disable",
                               !.ch = ChanOf(m), !.user = a, !.mid = m]]
            /\ UNCHANGED reply
    /\ UNCHANGED <<TEMP_ENTRY, STICKY_STATE, SCHEDULE_STATE, chan, roster, nextId, now,
                   cooldown, locked>>

\* _handle_status_change resumed after msg.edit(view=disabled): any exception
\* is passed over; update_schedule_panel follows
StatusDisableDone(t, res) ==
    LET rec == tasks[t]
        out == Outcome(Exists(rec.ch, rec.mid), res)
    IN /\ rec.pc = "status_disable"
       /\ chan' = IF out = "ok"
                  THEN [chan EXCEPT ![rec.ch] =
                          [i \in 1..Len(@) |->
                             IF @[i].id = rec.mid THEN [@[i] EXCEPT !.disabled = TRUE]
                             ELSE @[i]]]
                  ELSE chan
       /\ tasks' = [tasks EXCEPT ![t] =
             SyncEnter(IF out = "ok" THEN rec ELSE [rec EXCEPT !.clean = FALSE], ENTRIES)]
       /\ UNCHANGED <<ENTRIES, TEMP_ENTRY, STICKY_STATE, SCHEDULE_STATE, disk, roster,
                      nextId, now, cooldown, locked, reply>>

\* ------------------------------------------------------------ commands
\* a delete loop that takes the matching records of every status
SoftDeleteAny(E, mid, slot) ==
    [i \in 1..Len(E) |->
        IF /\ E[i].message_id = mid
           /\ (slot = None \/ E[i].slot_key = slot)
        THEN [E[i] EXCEPT !.status = "deleted"] ELSE E[i]]

\* the loop of entry_delete: matching active records become deleted
SoftDelete(E, mid, slot) ==
    [i \in 1..Len(E) |->
        IF /\ E[i].message_id = mid /\ E[i].status = "active"
           /\ (slot = None \/ E[i].slot_key = slot)
        THEN [E[i] EXCEPT !.status = "deleted"] ELSE E[i]]

\* /entry_delete up to its first await; mid = 0 stands for a message_id that
\* int() rejects
EntryDelete(a, mid, slot) ==
    /\ IF ~_has_perm(a)
       THEN /\ reply' = "denied"
            /\ UNCHANGED <<ENTRIES, disk, tasks>>
       ELSE IF mid = 0
       THEN /\ reply' = "not_a_number"
            /\ UNCHANGED <<ENTRIES, disk, tasks>>
       ELSE IF SoftDelete(ENTRIES, mid, slot) = ENTRIES
       THEN /\ reply' = "deleted"
            /\ UNCHANGED <<ENTRIES, disk, tasks>>
       ELSE /\ FreeSlots # {}
            /\ ENTRIES' = SoftDelete(ENTRIES, mid, slot)
            /\ disk' = [disk EXCEPT !.entries = ENTRIES']
            /\ tasks' = [tasks EXCEPT ![FreeSlot] =
                  SyncEnter([Idle EXCEPT !.kind = "delete", !.user = a], ENTRIES')]
            /\ UNCHANGED reply
    /\ UNCHANGED <<TEMP_ENTRY, STICKY_STATE, SCHEDULE_STATE, chan, roster, nextId, now,
                   cooldown, locked>>

\* /entry_panel up to its first await (the response)
EntryPanel(a, ch) ==
    /\ FreeSlots # {}
    /\ reply' = "arming"
    /\ tasks' = [tasks EXCEPT ![FreeSlot] =
          [Idle EXCEPT !.kind = "arm", !.pc = "arm_respond", !.ch = ch, !.user = a]]
    /\ UNCHANGED <<ENTRIES, TEMP_ENTRY, STICKY_STATE, SCHEDULE_STATE, disk, chan, roster,
                   nextId, now, cooldown, locked>>

\* /entry_panel resumed after the response: ensure_sticky_bottom
ArmRespondDone(t, res) ==
    LET rec == tasks[t]
        go == StickyEnter(rec, rec.ch, ENTRIES)
    IN /\ rec.pc = "arm_respond"
       /\ IF res = "ok"
          THEN /\ tasks' = [tasks EXCEPT ![t] = Settle(go.rec)]
               /\ cooldown' = go.cd
               /\ locked' = go.lk
          ELSE /\ tasks' = [tasks EXCEPT ![t] = Settle(Raise(rec))]
               /\ UNCHANGED <<cooldown, locked>>
       /\ UNCHANGED <<ENTRIES, TEMP_ENTRY, STICKY_STATE, SCHEDULE_STATE, disk, chan,
                      roster, nextId, now, reply>>

\* /entry_panel_off up to its first await: the binding is popped and saved
EntryPanelOff(a, ch) ==
    /\ STICKY_STATE' = [STICKY_STATE EXCEPT ![ch] = 0]
    /\ disk' = [disk EXCEPT !.sticky = save_sticky(STICKY_STATE')]
    /\ IF STICKY_STATE[ch] # 0
       THEN /\ FreeSlots # {}
            /\ tasks' = [tasks EXCEPT ![FreeSlot] =
                  [Idle EXCEPT !.kind = "disarm", !.pc = "del_fetch", !.ch = ch,
                               !.user = a, !.mid = STICKY_STATE[ch]]]
            /\ UNCHANGED reply
       ELSE /\ reply' = "no_sticky"
            /\ UNCHANGED tasks
    /\ UNCHANGED <<ENTRIES, TEMP_ENTRY, SCHEDULE_STATE, chan, roster, nextId, now,
                   cooldown, locked>>

\* /schedule_refresh up to its first await
ScheduleRefresh(a) ==
    /\ FreeSlots # {}
    /\ tasks' = [tasks EXCEPT ![FreeSlot] =
          SyncEnter([Idle EXCEPT !.kind = "refresh", !.user = a], ENTRIES)]
    /\ UNCHANGED <<ENTRIES, TEMP_ENTRY, STICKY_STATE, SCHEDULE_STATE, disk, chan, roster,
                   nextId, now, cooldown, locked, reply>>

\* -------------------------------------------------------------- events
\* on_message without its test of message.author.bot
OnMessageAnyAuthor(ch, isBot) ==
    LET go == StickyEnter([Idle EXCEPT !.kind = "on_message", !.ch = ch], ch, ENTRIES)
        starts == STICKY_STATE[ch] # 0
    IN /\ nextId <= MaxId
       /\ chan' = [chan EXCEPT ![ch] =
             Append(@, [id |-> nextId, kind |-> IF isBot THEN "bot" ELSE "user",
                        disabled |-> FALSE])]
       /\ nextId' = nextId + 1
       /\ IF starts
          THEN /\ FreeSlots # {}
               /\ tasks' = [tasks EXCEPT ![FreeSlot] = Settle(go.rec)]
               /\ cooldown' = go.cd
               /\ locked' = go.lk
          ELSE UNCHANGED <<tasks, cooldown, locked>>
       /\ UNCHANGED <<ENTRIES, TEMP_ENTRY, STICKY_STATE, SCHEDULE_STATE, disk, roster,
                      now, reply>>

\* a message is posted in ch and on_message runs: a bot's message is ignored,
\* a member's message in a bound channel starts ensure_sticky_bottom
OnMessage(ch, isBot) ==
    LET go == StickyEnter([Idle EXCEPT !.kind = "on_message", !.ch = ch], ch, ENTRIES)
        starts == ~isBot /\ STICKY_STATE[ch] # 0
    IN /\ nextId <= MaxId
       /\ chan' = [chan EXCEPT ![ch] =
             Append(@, [id |-> nextId, kind |-> IF isBot THEN "bot" ELSE "user",
                        disabled |-> FALSE])]
       /\ nextId' = nextId + 1
       /\ IF starts
          THEN /\ FreeSlots # {}
               /\ tasks' = [tasks EXCEPT ![FreeSlot] = Settle(go.rec)]
               /\ cooldown' = go.cd
               /\ locked' = go.lk
          ELSE UNCHANGED <<tasks, cooldown, locked>>
       /\ UNCHANGED <<ENTRIES, TEMP_ENTRY, STICKY_STATE, SCHEDULE_STATE, disk, roster,
                      now, reply>>

\* somebody deletes roster message m on the platform; the bot is not told,
\* and its next fetch_message of m raises NotFound
RosterDeleted(m) ==
    /\ m \in RosterIds
    /\ roster' = {x \in roster : x.id # m}
    /\ UNCHANGED <<ENTRIES, TEMP_ENTRY, STICKY_STATE, SCHEDULE_STATE, disk, chan, nextId,
                   now, cooldown, locked, tasks, reply>>

\* the clock advances
Tick ==
    /\ now < MaxTime
    /\ now' = now + 1
    /\ UNCHANGED <<ENTRIES, TEMP_ENTRY, STICKY_STATE, SCHEDULE_STATE, disk, chan, roster,
                   nextId, cooldown, locked, tasks, reply>>

\* the process restarts and on_ready runs: load_states, then one
\* ensure_sticky_bottom task per bound channel and one update_schedule_panel task
Restart ==
    LET loaded == load_sticky(disk.sticky)
        bound == {ch \in Channels : loaded[ch] # 0}
        slot == CHOOSE f \in [bound -> TaskIds \ {1}] :
                    \A c, d \in bound : c # d => f[c] # f[d]
    IN /\ Cardinality(bound) + 1 <= MaxTasks
       /\ ENTRIES' = disk.entries
       /\ STICKY_STATE' = loaded
       /\ SCHEDULE_STATE' = disk.schedule
       /\ TEMP_ENTRY' = [u \in Users |-> NoData]
       /\ cooldown' = [ch \in Channels |-> 0]
       /\ locked' = [ch \in Channels |-> FALSE]
       /\ tasks' = [t \in TaskIds |->
             IF t = 1 THEN [Idle EXCEPT !.kind = "ready_sched", !.pc = "ready_sched"]
             ELSE IF \E c \in bound : slot[c] = t
             THEN [Idle EXCEPT !.kind = "ready_sticky", !.pc = "ready_sticky",
                               !.ch = CHOOSE c \in bound : slot[c] = t]
             ELSE Idle]
       /\ UNCHANGED <<disk, chan, roster, nextId, now, reply>>

\* a startup task begins ensure_sticky_bottom
ReadyStickyStart(t) ==
    LET rec == tasks[t]
        go == StickyEnter(rec, rec.ch, ENTRIES)
    IN /\ rec.pc = "ready_sticky"
       /\ tasks' = [tasks EXCEPT ![t] = Settle(go.rec)]
       /\ cooldown' = go.cd
       /\ locked' = go.lk
       /\ UNCHANGED <<ENTRIES, TEMP_ENTRY, STICKY_STATE, SCHEDULE_STATE, disk, chan,
                      roster, nextId, now, reply>>

\* the startup task begins update_schedule_panel
ReadySchedStart(t) ==
    LET rec == tasks[t]
    IN /\ rec.pc = "ready_sched"
       /\ tasks' = [tasks EXCEPT ![t] = SyncEnter(rec, ENTRIES)]
       /\ UNCHANGED <<ENTRIES, TEMP_ENTRY, STICKY_STATE, SCHEDULE_STATE, disk, chan,
                      roster, nextId, now, cooldown, locked, reply>>

\* ------------------------------------------------------ specification
Init ==
    /\ ENTRIES = <<>>
    /\ TEMP_ENTRY = [u \in Users |-> NoData]
    /\ STICKY_STATE = [ch \in Channels |-> 0]
    /\ SCHEDULE_STATE = 0
    /\ disk = [sticky |-> save_sticky(STICKY_STATE), entries |-> <<>>, schedule |-> 0]
    /\ chan = [ch \in Channels |-> <<>>]
    /\ roster = {}
    /\ nextId = 1
    /\ now = StartTime
    /\ cooldown = [ch \in Channels |-> 0]
    /\ locked = [ch \in Channels |-> FALSE]
    /\ tasks = [t \in TaskIds |-> Idle]
    /\ reply = None

\* what a platform call answers when its message exists
Results == {"ok", "forbidden", "error"}
StatusKeys == {"interviewed", "no_response"}

Next ==
    \/ \E u \in Users, n \in Names, r \in Referrers : BasicInfoSubmit(u, n, r)
    \/ \E u \in Users, ch \in Channels, vs \in SlotChoices : TimeSelectCallback(u, ch, vs)
    \/ \E u \in Users, ch \in Channels, x \in Texts : CustomTimeSubmit(u, ch, x)
    \/ \E t \in TaskIds, res \in Results : PanelSendDone(t, res)
    \/ \E t \in TaskIds, res \in Results : PanelRespondDone(t, res)
    \/ \E t \in TaskIds : StickyLockAcquire(t)
    \/ \E t \in TaskIds, res \in Results : StickyHistoryDone(t, res)
    \/ \E t \in TaskIds, res \in Results : DeleteFetchDone(t, res)
    \/ \E t \in TaskIds, res \in Results : DeleteDeleteDone(t, res)
    \/ \E t \in TaskIds, res \in Results : StickySendDone(t, res)
    \/ \E t \in TaskIds, res \in Results : SchedFetchDone(t, res)
    \/ \E t \in TaskIds, res \in Results : SchedSendDone(t, res)
    \/ \E t \in TaskIds, res \in Results : SchedEditDone(t, res)
    \/ \E a \in Actors, m \in 1..MaxId, k \in StatusKeys :
          m < nextId /\ HandleStatusChange(a, m, k)
    \/ \E t \in TaskIds, res \in Results : StatusDisableDone(t, res)
    \/ \E a \in Actors, m \in 0..MaxId, sl \in SlotFilters :
          m < nextId /\ EntryDelete(a, m, sl)
    \/ \E a \in Actors, ch \in Channels : EntryPanel(a, ch)
    \/ \E t \in TaskIds, res \in Results : ArmRespondDone(t, res)
    \/ \E a \in Actors, ch \in Channels : EntryPanelOff(a, ch)
    \/ \E a \in Actors : ScheduleRefresh(a)
    \/ \E ch \in Channels, b \in BOOLEAN : OnMessage(ch, b)
    \/ \E m \in 1..MaxId : RosterDeleted(m)
    \/ Tick
    \/ Restart
    \/ \E t \in TaskIds : ReadyStickyStart(t)
    \/ \E t \in TaskIds : ReadySchedStart(t)

Spec == Init /\ [][Next]_vars

\* ------------------------------------------------ the bot in service
\* the state after /entry_panel and /schedule_refresh on a fresh process: the
\* control message (id 1) and the empty roster (id 2) are posted and bound,
\* and the cooldown of the arming pass is running
ArmedChannel == CHOOSE ch \in Channels : TRUE
InitArmed ==
    /\ ENTRIES = <<>>
    /\ TEMP_ENTRY = [u \in Users |-> NoData]
    /\ STICKY_STATE = [ch \in Channels |-> IF ch = ArmedChannel THEN 1 ELSE 0]
    /\ SCHEDULE_STATE = 2
    /\ disk = [sticky |-> save_sticky(STICKY_STATE), entries |-> <<>>, schedule |-> 2]
    /\ chan = [ch \in Channels |->
                 IF ch = ArmedChannel
                 THEN <<[id |-> 1, kind |-> "sticky", disabled |-> FALSE]>> ELSE <<>>]
    /\ roster = {[id |-> 2, content |-> _build_schedule_embed(<<>>)]}
    /\ nextId = 3
    /\ now = StartTime
    /\ cooldown = [ch \in Channels |-> IF ch = ArmedChannel THEN StartTime ELSE 0]
    /\ locked = [ch \in Channels |-> FALSE]
    /\ tasks = [t \in TaskIds |-> Idle]
    /\ reply = "refreshed"

AllIdle == \A t \in TaskIds : tasks[t].pc = "idle"

\* registrations racing each other in the armed channel, every platform call
\* succeeding, all within the cooldown of the arming pass
NextForm ==
    \/ \E u \in Users, n \in Names, r \in Referrers : BasicInfoSubmit(u, n, r)
    \/ \E u \in Users, ch \in Channels, vs \in SlotChoices : TimeSelectCallback(u, ch, vs)
    \/ \E u \in Users, ch \in Channels, x \in Texts : CustomTimeSubmit(u, ch, x)
    \/ \E t \in TaskIds : PanelSendDone(t, "ok")
    \/ \E t \in TaskIds : PanelRespondDone(t, "ok")
    \/ \E t \in TaskIds : SchedFetchDone(t, "ok")
    \/ \E t \in TaskIds : SchedEditDone(t, "ok")

SpecForm == InitArmed /\ [][NextForm]_vars

\* ------------------------------------------- a ledger already filled
\* registrations that completed in the armed channel within the cooldown of
\* the arming pass: group i is panel message 2 + i, every record active, the
\* roster showing them.  One owner holds several groups only through racing
\* submissions, so at most as many as handlers fit in flight.
MaxGroups == 2
StatusChoices == {<<"0-3", "20-0">>, <<"0-3">>}
FormData == [name |-> "Taro", referrer |-> "Hanako", custom_time |-> None]
GroupSpecs == Users \X StatusChoices

GroupOf(mid, g) ==
    [k \in 1..Len(g[2]) |->
        EntryRecord(ArmedChannel, mid, g[1], FormData, g[2][k], StartTime)]

RECURSIVE LedgerOf(_)
LedgerOf(gs) ==
    IF gs = <<>> THEN <<>>
    ELSE LedgerOf(SubSeq(gs, 1, Len(gs) - 1)) \o GroupOf(2 + Len(gs), Last(gs))

InitGroups ==
    {gs \in UNION {[1..k -> GroupSpecs] : k \in 0..MaxGroups} :
        \A u \in Users : Cardinality({i \in 1..Len(gs) : gs[i][1] = u}) <= MaxTasks}

InitFilled ==
    \E gs \in InitGroups :
        /\ ENTRIES = LedgerOf(gs)
        /\ TEMP_ENTRY = [u \in Users |-> NoData]
        /\ STICKY_STATE = [ch \in Channels |-> IF ch = ArmedChannel THEN 1 ELSE 0]
        /\ SCHEDULE_STATE = 2
        /\ disk = [sticky |-> save_sticky(STICKY_STATE), entries |-> ENTRIES, schedule |-> 2]
        /\ chan = [ch \in Channels |->
                     IF ch = ArmedChannel
                     THEN <<[id |-> 1, kind |-> "sticky", disabled |-> FALSE]>> \o
                          [i \in 1..Len(gs) |->
                             [id |-> 2 + i, kind |-> "panel", disabled |-> FALSE]]
                     ELSE <<>>]
        /\ roster = {[id |-> 2, content |-> _build_schedule_embed(ENTRIES)]}
        /\ nextId = 3 + Len(gs)
        /\ now = StartTime
        /\ cooldown = [ch \in Channels |-> IF ch = ArmedChannel THEN StartTime ELSE 0]
        /\ locked = [ch \in Channels |-> FALSE]
        /\ tasks = [t \in TaskIds |-> Idle]
        /\ reply = IF gs = <<>> THEN "refreshed" ELSE "sent"

\* the status buttons and the commands, used by a manager and by a member
\* without the role, racing each other on a filled ledger
NextStatus ==
    \/ \E a \in Actors, m \in 1..(2 + MaxGroups), k \in StatusKeys :
          HandleStatusChange(a, m, k)
    \/ \E t \in TaskIds : StatusDisableDone(t, "ok")
    \/ \E a \in Actors, m \in 0..(2 + MaxGroups), sl \in SlotFilters :
          EntryDelete(a, m, sl)
    \/ \E t \in TaskIds : SchedFetchDone(t, "ok")
    \/ \E t \in TaskIds : SchedEditDone(t, "ok")

SpecStatus == InitFilled /\ [][NextStatus]_vars

\* a member without the manager role presses the buttons and issues the
\* commands on a filled ledger, every platform call succeeding
Guests == Actors \ Managers
NextGuest ==
    \/ \E a \in Guests, m \in 1..(2 + MaxGroups), k \in StatusKeys :
          HandleStatusChange(a, m, k)
    \/ \E a \in Guests, m \in 0..(2 + MaxGroups), sl \in SlotFilters :
          EntryDelete(a, m, sl)
    \/ \E a \in Guests, ch \in Channels : EntryPanel(a, ch)
    \/ \E t \in TaskIds : ArmRespondDone(t, "ok")
    \/ \E a \in Guests, ch \in Channels : EntryPanelOff(a, ch)
    \/ \E t \in TaskIds : DeleteFetchDone(t, "ok")
    \/ \E t \in TaskIds : DeleteDeleteDone(t, "ok")
    \/ \E a \in Guests : ScheduleRefresh(a)
    \/ \E t \in TaskIds : SchedFetchDone(t, "ok")
    \/ \E t \in TaskIds : SchedEditDone(t, "ok")

SpecGuest == InitFilled /\ [][NextGuest]_vars

\* the roster alone, from a fresh process: manual refreshes and restarts
\* racing, the roster message deleted under the bot, every call free to fail
NextRoster ==
    \/ \E a \in Managers : ScheduleRefresh(a)
    \/ Restart
    \/ \E t \in TaskIds : ReadySchedStart(t)
    \/ \E m \in 1..MaxId : RosterDeleted(m)
    \/ \E t \in TaskIds, res \in Results : SchedFetchDone(t, res)
    \/ \E t \in TaskIds, res \in Results : SchedSendDone(t, res)
    \/ \E t \in TaskIds, res \in Results : SchedEditDone(t, res)

SpecRoster == Init /\ [][NextRoster]_vars

\* one handler at a time on a filled ledger: a refresh, a delete or a press
\* starts only when nothing is in flight; calls are free to fail
NextSeq ==
    \/ \E a \in Managers : AllIdle /\ ScheduleRefresh(a)
    \/ \E a \in Managers, m \in 1..(2 + MaxGroups), sl \in SlotFilters :
          AllIdle /\ EntryDelete(a, m, sl)
    \/ \E a \in Managers, m \in 1..(2 + MaxGroups), k \in StatusKeys :
          AllIdle /\ HandleStatusChange(a, m, k)
    \/ \E t \in TaskIds, res \in Results : StatusDisableDone(t, res)
    \/ \E m \in 1..MaxId : AllIdle /\ RosterDeleted(m)
    \/ \E t \in TaskIds, res \in Results : SchedFetchDone(t, res)
    \/ \E t \in TaskIds, res \in Results : SchedSendDone(t, res)
    \/ \E t \in TaskIds, res \in Results : SchedEditDone(t, res)

SpecSeq == InitFilled /\ [][NextSeq]_vars

\* the control message alone, from a fresh process: the channel is armed and
\* disarmed, members and bots post, time passes, every call free to fail
NextSticky ==
    \/ \E a \in Managers, ch \in Channels : EntryPanel(a, ch)
    \/ \E t \in TaskIds, res \in Results : ArmRespondDone(t, res)
    \/ \E a \in Managers, ch \in Channels : EntryPanelOff(a, ch)
    \/ \E ch \in Channels, b \in BOOLEAN : OnMessage(ch, b)
    \/ Tick
    \/ \E t \in TaskIds : StickyLockAcquire(t)
    \/ \E t \in TaskIds, res \in Results : StickyHistoryDone(t, res)
    \/ \E t \in TaskIds, res \in Results : DeleteFetchDone(t, res)
    \/ \E t \in TaskIds, res \in Results : DeleteDeleteDone(t, res)
    \/ \E t \in TaskIds, res \in Results : StickySendDone(t, res)

SpecSticky == Init /\ [][NextSticky]_vars

\* every trigger of ensure_sticky_bottom from a fresh process: a registration
\* of one user, the arm command, members posting, restarts with their startup
\* tasks, and one cooldown of time passing; every platform call succeeds
OneUser == CHOOSE u \in Users : TRUE
OneChoice == {"0-3"}
NextTriggers ==
    \/ \E n \in Names, r \in Referrers : BasicInfoSubmit(OneUser, n, r)
    \/ \E ch \in Channels : TimeSelectCallback(OneUser, ch, OneChoice)
    \/ \E t \in TaskIds : PanelSendDone(t, "ok")
    \/ \E t \in TaskIds : PanelRespondDone(t, "ok")
    \/ \E a \in Managers, ch \in Channels : EntryPanel(a, ch)
    \/ \E t \in TaskIds : ArmRespondDone(t, "ok")
    \/ \E ch \in Channels : OnMessage(ch, FALSE)
    \/ now < StartTime + STICKY_COOLDOWN_SEC /\ Tick
    \/ Restart
    \/ \E t \in TaskIds : ReadyStickyStart(t)
    \/ \E t \in TaskIds : ReadySchedStart(t)
    \/ \E t \in TaskIds : StickyLockAcquire(t)
    \/ \E t \in TaskIds : StickyHistoryDone(t, "ok")
    \/ \E t \in TaskIds : DeleteFetchDone(t, "ok")
    \/ \E t \in TaskIds : DeleteDeleteDone(t, "ok")
    \/ \E t \in TaskIds : StickySendDone(t, "ok")
    \/ \E t \in TaskIds : SchedFetchDone(t, "ok")
    \/ \E t \in TaskIds : SchedSendDone(t, "ok")
    \/ \E t \in TaskIds : SchedEditDone(t, "ok")

SpecTriggers == Init /\ [][NextTriggers]_vars

\* an armed channel that is disabled and never armed again: members post,
\* one user registers, time passes; every platform call succeeds
NextDisarm ==
    \/ \E a \in Managers, ch \in Channels : EntryPanelOff(a, ch)
    \/ \E ch \in Channels : OnMessage(ch, FALSE)
    \/ Tick
    \/ \E n \in Names, r \in Referrers : BasicInfoSubmit(OneUser, n, r)
    \/ \E ch \in Channels : TimeSelectCallback(OneUser, ch, OneChoice)
    \/ \E t \in TaskIds : PanelSendDone(t, "ok")
    \/ \E t \in TaskIds : PanelRespondDone(t, "ok")
    \/ \E t \in TaskIds : StickyLockAcquire(t)
    \/ \E t \in TaskIds : StickyHistoryDone(t, "ok")
    \/ \E t \in TaskIds : DeleteFetchDone(t, "ok")
    \/ \E t \in TaskIds : DeleteDeleteDone(t, "ok")
    \/ \E t \in TaskIds : StickySendDone(t, "ok")
    \/ \E t \in TaskIds : SchedFetchDone(t, "ok")
    \/ \E t \in TaskIds : SchedEditDone(t, "ok")

SpecDisarm == InitArmed /\ [][NextDisarm]_vars

\* a registration on a fresh process, members posting afterwards, one
\* cooldown of time passing; every platform call of the reconciliation pass and of the roster
\* sync free to fail
NextAbsorb ==
    \/ \E n \in Names, r \in Referrers : BasicInfoSubmit(OneUser, n, r)
    \/ \E ch \in Channels : TimeSelectCallback(OneUser, ch, OneChoice)
    \/ \E t \in TaskIds : PanelSendDone(t, "ok")
    \/ \E t \in TaskIds : PanelRespondDone(t, "ok")
    \/ \E ch \in Channels : OnMessage(ch, FALSE)
    \/ now < StartTime + STICKY_COOLDOWN_SEC /\ Tick
    \/ \E t \in TaskIds : StickyLockAcquire(t)
    \/ \E t \in TaskIds, res \in Results : StickyHistoryDone(t, res)
    \/ \E t \in TaskIds, res \in Results : DeleteFetchDone(t, res)
    \/ \E t \in TaskIds, res \in Results : DeleteDeleteDone(t, res)
    \/ \E t \in TaskIds, res \in Results : StickySendDone(t, res)
    \/ \E t \in TaskIds, res \in Results : SchedFetchDone(t, res)
    \/ \E t \in TaskIds, res \in Results : SchedSendDone(t, res)
    \/ \E t \in TaskIds, res \in Results : SchedEditDone(t, res)

SpecAbsorb == Init /\ [][NextAbsorb]_vars

\* render on its own: every ledger of up to MaxLedger single-record groups,
\* of any slot of RenderSlots and any status, registered in any slot order at
\* non-decreasing times, bound to a roster message; the actions are manual
\* refreshes, which write _build_schedule_embed of the ledger
MaxLedger == 3
RenderSlots == {"0-3", "20-0", "other"}
Statuses == {"active", "interviewed", "no_response", "deleted"}
TsChoices == {StartTime - 1, StartTime}
RenderSpecs == RenderSlots \X Statuses \X TsChoices
OwnerAt(i) == IF i % 2 = 1 THEN "u1" ELSE "u2"
RecordOf(i, r) ==
    [EntryRecord(ArmedChannel, 2 + i, OwnerAt(i),
                 [FormData EXCEPT !.custom_time = IF r[1] = "other" THEN "next week" ELSE None],
                 r[1], r[3])
       EXCEPT !.status = r[2]]
RenderLedgers ==
    {rs \in UNION {[1..k -> RenderSpecs] : k \in 0..MaxLedger} :
        \A i \in 1..Len(rs) - 1 : rs[i][3] <= rs[i + 1][3]}

InitRender ==
    \E rs \in RenderLedgers :
        /\ ENTRIES = [i \in 1..Len(rs) |-> RecordOf(i, rs[i])]
        /\ TEMP_ENTRY = [u \in Users |-> NoData]
        /\ STICKY_STATE = [ch \in Channels |-> IF ch = ArmedChannel THEN 1 ELSE 0]
        /\ SCHEDULE_STATE = 2
        /\ disk = [sticky |-> save_sticky(STICKY_STATE), entries |-> ENTRIES, schedule |-> 2]
        /\ chan = [ch \in Channels |->
                     IF ch = ArmedChannel
                     THEN <<[id |-> 1, kind |-> "sticky", disabled |-> FALSE]>> \o
                          [i \in 1..Len(rs) |->
                             [id |-> 2 + i, kind |-> "panel",
                              disabled |-> rs[i][2] # "active"]]
                     ELSE <<>>]
        /\ roster = {[id |-> 2, content |-> _build_schedule_embed(ENTRIES)]}
        /\ nextId = 3 + Len(rs)
        /\ now = StartTime
        /\ cooldown = [ch \in Channels |-> IF ch = ArmedChannel THEN StartTime ELSE 0]
        /\ locked = [ch \in Channels |-> FALSE]
        /\ tasks = [t \in TaskIds |-> Idle]
        /\ reply = "refreshed"

NextRender ==
    \/ \E a \in Managers : ScheduleRefresh(a)
    \/ \E t \in TaskIds : SchedFetchDone(t, "ok")
    \/ \E t \in TaskIds : SchedEditDone(t, "ok")

SpecRender == InitRender /\ [][NextRender]_vars

\* every kind of mutation, and restarts, from a fresh process: a manager
\* arms and disables the channel, one user registers, a manager presses the
\* status buttons and deletes, each when no handler is in flight; the process
\* restarts at any moment and loads its files; every platform call succeeds
\* and no time passes
NextDurable ==
    \/ AllIdle /\ \E a \in Managers, ch \in Channels : EntryPanel(a, ch)
    \/ \E t \in TaskIds : ArmRespondDone(t, "ok")
    \/ AllIdle /\ \E a \in Managers, ch \in Channels : EntryPanelOff(a, ch)
    \/ AllIdle /\ \E n \in Names, r \in Referrers : BasicInfoSubmit(OneUser, n, r)
    \/ AllIdle /\ \E ch \in Channels : TimeSelectCallback(OneUser, ch, OneChoice)
    \/ \E t \in TaskIds : PanelSendDone(t, "ok")
    \/ \E t \in TaskIds : PanelRespondDone(t, "ok")
    \/ AllIdle /\ \E a \in Managers, m \in 1..MaxId, k \in StatusKeys :
                     HandleStatusChange(a, m, k)
    \/ \E t \in TaskIds : StatusDisableDone(t, "ok")
    \/ AllIdle /\ \E a \in Managers, m \in 1..MaxId : EntryDelete(a, m, "none")
    \/ Restart
    \/ \E t \in TaskIds : ReadyStickyStart(t)
    \/ \E t \in TaskIds : ReadySchedStart(t)
    \/ \E t \in TaskIds : StickyHistoryDone(t, "ok")
    \/ \E t \in TaskIds : DeleteFetchDone(t, "ok")
    \/ \E t \in TaskIds : DeleteDeleteDone(t, "ok")
    \/ \E t \in TaskIds : StickySendDone(t, "ok")
    \/ \E t \in TaskIds : SchedFetchDone(t, "ok")
    \/ \E t \in TaskIds : SchedSendDone(t, "ok")
    \/ \E t \in TaskIds : SchedEditDone(t, "ok")

SpecDurable == Init /\ [][NextDurable]_vars

\* an armed channel in which members post and time passes, every platform
\* call succeeding.  The event loop resumes every handler whose call has
\* returned and the clock advances (weak fairness); nobody is obliged to post
HandlerStep ==
    \/ \E t \in TaskIds : StickyLockAcquire(t)
    \/ \E t \in TaskIds : StickyHistoryDone(t, "ok")
    \/ \E t \in TaskIds : DeleteFetchDone(t, "ok")
    \/ \E t \in TaskIds : DeleteDeleteDone(t, "ok")
    \/ \E t \in TaskIds : StickySendDone(t, "ok")

NextLive ==
    \/ \E ch \in Channels : OnMessage(ch, FALSE)
    \/ Tick
    \/ HandlerStep

SpecLive == InitArmed /\ [][NextLive]_vars /\ WF_vars(HandlerStep) /\ WF_vars(Tick)

\* an armed channel with a bound roster: members and bots post, a manager
\* refreshes the roster, time passes, every platform call free to fail (at
\* the bound MaxId a send can only fail).  The event loop resumes every
\* handler whose call has returned (weak fairness); nobody is obliged to
\* post or refresh
UserEvent ==
    \/ \E ch \in Channels, b \in BOOLEAN : OnMessage(ch, b)
    \/ \E a \in Managers : ScheduleRefresh(a)
    \/ Tick

HandlerResumes ==
    \/ \E t \in TaskIds : StickyLockAcquire(t)
    \/ \E t \in TaskIds, res \in Results : StickyHistoryDone(t, res)
    \/ \E t \in TaskIds, res \in Results : DeleteFetchDone(t, res)
    \/ \E t \in TaskIds, res \in Results : DeleteDeleteDone(t, res)
    \/ \E t \in TaskIds, res \in Results : StickySendDone(t, res)
    \/ \E t \in TaskIds, res \in Results : SchedFetchDone(t, res)
    \/ \E t \in TaskIds, res \in Results : SchedSendDone(t, res)
    \/ \E t \in TaskIds, res \in Results : SchedEditDone(t, res)

NextQuiet == UserEvent \/ HandlerResumes

SpecQuiet == InitArmed /\ [][NextQuiet]_vars /\ WF_vars(HandlerResumes)

\* ======================================================== statements
\* the message ids of the groups of owner u that hold a record with a status
\* in st
GroupsOf(E, u, st) ==
    {E[i].message_id : i \in {j \in 1..Len(E) : E[j].user_id = u /\ E[j].status \in st}}

\* C1: under every interleaving of the form handlers, every owner has at most
\* one entry group whose records are active or interviewed.
C1_OneBlockingGroupPerOwner ==
    \A u \in Users : Cardinality(GroupsOf(ENTRIES, u, {"active", "interviewed"})) <= 1

\* a form step made by u: the basic-info submit, the slot pick, the free-text
\* submit
FormStep(u) ==
    \/ \E n \in Names, r \in Referrers : BasicInfoSubmit(u, n, r)
    \/ \E ch \in Channels, vs \in SlotChoices : TimeSelectCallback(u, ch, vs)
    \/ \E ch \in Channels, x \in Texts : CustomTimeSubmit(u, ch, x)

\* C2: once an owner has active records in the ledger, every form step of that
\* owner is answered as a duplicate registration, and the step changes neither
\* the ledger nor the roster message (nor starts a handler or posts a panel).
C2_DuplicateRejected ==
    [][\A u \in Users :
          (GroupsOf(ENTRIES, u, {"active"}) # {} /\ FormStep(u))
          => /\ reply' = "duplicate"
             /\ ENTRIES' = ENTRIES
             /\ disk' = disk
             /\ roster' = roster
             /\ chan' = chan
             /\ tasks' = tasks
             /\ TEMP_ENTRY' = TEMP_ENTRY]_vars

\* a completed registration followed by a rejected form step
C2_Witness ==
    /\ reply = "duplicate"
    /\ AllIdle
    /\ \E u \in Users : GroupsOf(ENTRIES, u, {"active"}) # {}
    /\ Synced(ENTRIES)

\* the indices of the records of group m, and the owner of the group
GroupIdx(E, m) == {i \in 1..Len(E) : E[i].message_id = m}
OwnerOf(E, m) == E[CHOOSE i \in GroupIdx(E, m) : TRUE].user_id
ActiveIn(E, m) == {i \in GroupIdx(E, m) : E[i].status = "active"}

\* a press of button key on panel m that went through: the handler was started
Pressed(m, key) ==
    /\ \E a \in Actors : HandleStatusChange(a, m, key)
    /\ tasks' # tasks

\* C3: a successful "interviewed" on group m turns every active record of the
\* owner of m, in whatever group, to interviewed, and changes nothing else in
\* the ledger: no record of another owner, no record that was not active.
C3_InterviewedCascades ==
    [][\A m \in 1..(2 + MaxGroups) :
          Pressed(m, "interviewed")
          => /\ Len(ENTRIES') = Len(ENTRIES)
             /\ \A i \in 1..Len(ENTRIES) :
                   ENTRIES'[i] =
                      IF /\ ENTRIES[i].user_id = OwnerOf(ENTRIES, m)
                         /\ ENTRIES[i].status = "active"
                      THEN [ENTRIES[i] EXCEPT !.status = "interviewed"]
                      ELSE ENTRIES[i]]_vars

\* the press on one panel has just marked two groups of one owner
C3_Witness ==
    \E t \in TaskIds, u \in Users :
        /\ tasks[t].pc = "status_disable"
        /\ tasks[t].mid \in GroupsOf(ENTRIES, u, {"interviewed"})
        /\ Cardinality(GroupsOf(ENTRIES, u, {"interviewed"})) = 2
        /\ GroupsOf(ENTRIES, u, {"active"}) = {}

\* C4: a successful "no_response" on group m turns exactly the active records
\* of m to no_response and leaves every record of every other group as it was,
\* other groups of the same owner included.
C4_NoResponseGroupOnly ==
    [][\A m \in 1..(2 + MaxGroups) :
          Pressed(m, "no_response")
          => /\ Len(ENTRIES') = Len(ENTRIES)
             /\ \A i \in 1..Len(ENTRIES) :
                   ENTRIES'[i] =
                      IF ENTRIES[i].message_id = m /\ ENTRIES[i].status = "active"
                      THEN [ENTRIES[i] EXCEPT !.status = "no_response"]
                      ELSE ENTRIES[i]]_vars

\* the press has just marked one group of an owner whose other group is
\* still active
C4_Witness ==
    \E t \in TaskIds, u \in Users :
        /\ tasks[t].pc = "status_disable"
        /\ GroupsOf(ENTRIES, u, {"no_response"}) = {tasks[t].mid}
        /\ GroupsOf(ENTRIES, u, {"active"}) # {}
        /\ tasks[t].mid \notin GroupsOf(ENTRIES, u, {"active"})

\* C5: a press by a manager on group m is refused as not found, changing no
\* state, exactly when m has no active record; when some record of m is
\* active the press goes through and every active record of m leaves active.
C5_NotFoundIffNoActive ==
    [][\A m \in 1..(2 + MaxGroups), key \in StatusKeys :
          (\E a \in Managers : HandleStatusChange(a, m, key))
          => IF ActiveIn(ENTRIES, m) = {}
             THEN /\ reply' = "not_found"
                  /\ ENTRIES' = ENTRIES
                  /\ tasks' = tasks
             ELSE /\ tasks' # tasks
                  /\ \A i \in ActiveIn(ENTRIES, m) : ENTRIES'[i].status = key]_vars

\* an attempt by actor a: a button press or one of the four commands
Attempt(a) ==
    \/ \E m \in 1..(2 + MaxGroups), k \in StatusKeys : HandleStatusChange(a, m, k)
    \/ \E m \in 0..(2 + MaxGroups), sl \in SlotFilters : EntryDelete(a, m, sl)
    \/ \E ch \in Channels : EntryPanel(a, ch)
    \/ \E ch \in Channels : EntryPanelOff(a, ch)
    \/ ScheduleRefresh(a)

\* C6: a press or a command (delete, arm, disarm, refresh) by a member without
\* the manager role is refused, and the ledger, the bindings and the messages
\* on the platform are the same after the attempt as before; no handler runs on.
C6_GuestsRefused ==
    [][\A a \in Guests :
          Attempt(a)
          => /\ reply' = "denied"
             /\ ENTRIES' = ENTRIES
             /\ STICKY_STATE' = STICKY_STATE
             /\ SCHEDULE_STATE' = SCHEDULE_STATE
             /\ disk' = disk
             /\ chan' = chan
             /\ roster' = roster
             /\ tasks' = tasks]_vars

\* C7: under every interleaving of syncs and every outcome of the fetch, at
\* most one roster message exists on the platform.
C7_SingleRoster == Cardinality(roster) <= 1

\* C8: a sync that starts with the bound roster message showing the current
\* ledger (the state a successful sync leaves), runs alone with every call
\* succeeding and no ledger change, ends with the binding on the same id, that
\* message showing the same render, and as many roster messages as before.
C8_SyncIdempotent ==
    [][\A t \in TaskIds :
          (/\ tasks[t].pc = "sched_edit"
           /\ SchedEditDone(t, "ok")
           /\ tasks[t].mid \in RosterIds
           /\ tasks[t].clean
           /\ tasks[t].pre.synced
           /\ tasks[t].pre.ver = LedgerVersion(ENTRIES))
          => /\ SCHEDULE_STATE' = tasks[t].pre.binding
             /\ roster' = roster
             /\ [id |-> tasks[t].pre.binding,
                 content |-> _build_schedule_embed(ENTRIES)] \in roster'
             /\ Cardinality(roster') = tasks[t].pre.n]_vars

\* a refresh has completed and a second one, started on the synced roster
\* with the ledger untouched, is at its last call
C8_Witness ==
    \E t \in TaskIds :
        /\ tasks[t].kind = "refresh"
        /\ tasks[t].pc = "sched_edit"
        /\ tasks[t].clean
        /\ tasks[t].pre.synced
        /\ tasks[t].pre.ver = LedgerVersion(ENTRIES)
        /\ tasks[t].mid \in RosterIds
        /\ reply = "refreshed"
        /\ ENTRIES # <<>>

\* the tasks inside ensure_sticky_bottom of channel ch, past the cooldown check
InPass(T, ch) ==
    {t \in TaskIds : /\ T[t].ch = ch
                     /\ T[t].pc \in {"sticky_wait", "sticky_history", "del_fetch",
                                     "del_delete", "sticky_send"}}

\* ensure_sticky_bottom(ch) is entered by this step
PassEntered(ch) ==
    \/ \E t \in TaskIds :
          tasks[t].pc = "arm_respond" /\ tasks[t].ch = ch /\ ArmRespondDone(t, "ok")
    \/ STICKY_STATE[ch] # 0 /\ OnMessage(ch, FALSE)

\* C9: a pass that found the bound control message not last, whose calls all
\* succeeded, and beside which no other handler works on the channel, ends
\* with exactly one control message in the channel, bound and last; and a
\* pass entered within STICKY_COOLDOWN_SEC of the last accepted one makes no
\* platform call and changes no binding.
C9_PassConverges ==
    /\ [][\A t \in TaskIds :
            (/\ tasks[t].pc = "sticky_send"
             /\ StickySendDone(t, "ok")
             /\ tasks[t].clean
             /\ tasks[t].mid # 0
             /\ \A o \in TaskIds \ {t} : tasks[o].ch # tasks[t].ch)
            => /\ STICKY_STATE'[tasks[t].ch] # 0
               /\ {chan'[tasks[t].ch][i].id :
                     i \in {j \in 1..Len(chan'[tasks[t].ch]) :
                               chan'[tasks[t].ch][j].kind = "sticky"}}
                  = {STICKY_STATE'[tasks[t].ch]}
               /\ Last(chan'[tasks[t].ch]).id = STICKY_STATE'[tasks[t].ch]]_vars
    /\ [][\A ch \in Channels :
            (now - cooldown[ch] < STICKY_COOLDOWN_SEC /\ PassEntered(ch))
            => /\ InPass(tasks', ch) = InPass(tasks, ch)
               /\ STICKY_STATE' = STICKY_STATE
               /\ cooldown' = cooldown
               /\ locked' = locked]_vars

\* C10: every channel on which no handler is at work holds at most one live
\* control message, and its binding, when there is one, points at that
\* message (the states inside a pass or a disarm, between the delete and the
\* send, are let through).
C10_SingleControlMessage ==
    \A ch \in Channels :
        (\A t \in TaskIds : tasks[t].ch # ch)
        => /\ Cardinality(StickyIds(ch)) <= 1
           /\ STICKY_STATE[ch] # 0 => StickyIds(ch) = {STICKY_STATE[ch]}

\* the tasks that hold the lock of channel ch: inside the body of
\* ensure_sticky_bottom, between the history fetch and the recorded binding
InBody(T, ch) ==
    {t \in TaskIds : /\ T[t].ch = ch
                     /\ T[t].kind # "disarm"
                     /\ T[t].pc \in {"sticky_history", "del_fetch", "del_delete",
                                     "sticky_send"}}

\* C11: within one channel at most one reconciliation is between its history
\* fetch and its recorded binding at a time, whatever triggered the passes
\* (plain message, arm command, form submission, startup); the lock is held
\* exactly while one is
C11_OnePassPerChannel ==
    \A ch \in Channels :
        /\ Cardinality(InBody(tasks, ch)) <= 1
        /\ locked[ch] <=> InBody(tasks, ch) # {}

\* a second pass waits for the lock while the first one is about to post
C11_Witness ==
    \E ch \in Channels, t1, t2 \in TaskIds :
        /\ tasks[t1].ch = ch /\ tasks[t1].pc = "sticky_send"
        /\ tasks[t2].ch = ch /\ tasks[t2].pc = "sticky_wait"

\* C12: once a channel has no binding (after /entry_panel_off), and no arm
\* command is given, the channel stays without a binding and no control
\* message is posted in it, whatever runs in between
C12_DisabledStaysOff ==
    [][\A ch \in Channels :
          STICKY_STATE[ch] = 0 =>
             /\ STICKY_STATE'[ch] = 0
             /\ StickyIds(ch)' \subseteq StickyIds(ch)]_vars

\* C13: a handler that changed the ledger persists it, then issues the roster
\* refresh, then reconciles the control message: the registration handler,
\* resumed after its confirmation with the ledger saved, goes on to
\* ensure_schedule_message and not to the platform calls of
\* ensure_sticky_bottom
C13_RosterBeforeSticky ==
    [][\A t \in TaskIds :
          /\ tasks[t].kind = "post_panel" /\ tasks[t].pc = "panel_respond"
          /\ tasks'[t].kind = "post_panel" /\ tasks'[t].pc # "panel_respond"
          => /\ disk.entries = ENTRIES
             /\ tasks'[t].pc \in {"sched_fetch", "sched_send"}]_vars

\* the positions of a task inside ensure_sticky_bottom
StickyPcs == {"sticky_wait", "sticky_history", "del_fetch", "del_delete", "sticky_send"}

\* C14: a platform call failing inside the reconciliation pass is absorbed
\* there: when the pass of a registration ends, however its calls came out,
\* the channel's lock is free again and the registration handler goes on to
\* its roster refresh
C14_FailuresAbsorbed ==
    [][\A t \in TaskIds :
          /\ tasks[t].kind = "post_panel" /\ tasks[t].pc \in StickyPcs \ {"sticky_wait"}
          /\ tasks'[t].pc \notin StickyPcs
          => /\ ~locked'[tasks[t].ch]
             /\ tasks'[t].kind = "post_panel"
             /\ tasks'[t].pc \in {"sched_fetch", "sched_send"}]_vars

\* the indices of the active entries of slot k in ledger E
ActiveOf(E, k) == {i \in 1..Len(E) : E[i].status = "active" /\ E[i].slot_key = k}

\* C15: for every ledger, the bucket of each slot holds exactly the active
\* entries of that slot, each once, in ascending order of ts; entries of
\* any other status are in no bucket; the embed lists one field per slot
\* in the order 0-3, 3-6, 6-9, 9-12, 12-15, 15-20, 20-0, anytime, other with
\* the bucket's entries in the bucket's order; and that embed is what a
\* refresh writes
C15_RenderBuckets ==
    LET B == _group_entries_by_slot(ENTRIES)
        V == _build_schedule_embed(ENTRIES)
    IN /\ \A k \in Range(SLOT_ORDER) :
            /\ Len(B[k]) = Cardinality(ActiveOf(ENTRIES, k))
            /\ Range(B[k]) = {ENTRIES[i] : i \in ActiveOf(ENTRIES, k)}
            /\ \A i, j \in 1..Len(B[k]) : i < j => B[k][i].ts <= B[k][j].ts
       /\ [k \in 1..Len(V.fields) |-> V.fields[k].key] =
             <<"0-3", "3-6", "6-9", "9-12", "12-15", "15-20", "20-0", "anytime", "other">>
       /\ \A k \in 1..Len(V.fields) :
             V.fields[k].lines =
                [j \in 1..Len(B[V.fields[k].key]) |->
                    EmbedLine(V.fields[k].key, B[V.fields[k].key][j])]
       /\ \A t \in TaskIds : tasks[t].pc = "sched_edit" => tasks[t].content = V

\* a refresh is writing the embed of a ledger registered in the order
\* other, 20-0, 0-3 whose middle entry is no longer active
C15_Witness ==
    /\ Len(ENTRIES) = 3
    /\ ENTRIES[1].slot_key = "other" /\ ENTRIES[1].status = "active"
    /\ ENTRIES[2].slot_key = "20-0" /\ ENTRIES[2].status = "interviewed"
    /\ ENTRIES[3].slot_key = "0-3" /\ ENTRIES[3].status = "active"
    /\ ENTRIES[1].ts < ENTRIES[3].ts
    /\ \E t \in TaskIds :
          /\ tasks[t].pc = "sched_edit"
          /\ tasks[t].content.fields[1].lines # <<>>
          /\ tasks[t].content.fields[7].lines = <<>>
          /\ tasks[t].content.fields[9].lines # <<>>

\* the records of group m are well formed
WellFormed(E, m) ==
    LET I == GroupIdx(E, m)
    IN /\ \A i, j \in I : /\ E[i].user_id = E[j].user_id
                          /\ E[i].name = E[j].name
                          /\ E[i].referrer = E[j].referrer
                          /\ (i # j => E[i].slot_key # E[j].slot_key)
       /\ Cardinality(I) \in {1, 2}
       /\ \A i \in I : /\ E[i].slot_key \in Range(TIME_OPTIONS)
                       /\ (E[i].slot_key = "other" => Cardinality(I) = 1)
                       /\ (E[i].custom_time # None => E[i].slot_key = "other")

\* C16: every entry group in the ledger is well formed (one message id,
\* owner, name and referrer; one or two records of distinct slots of the
\* fixed set; "other" only alone; free text only under "other"), and a slot
\* pick that combines "other" with another slot, made by a user who is not
\* blocked, is answered as an invalid selection and changes nothing
C16_GroupsWellFormed ==
    /\ [](\A i \in 1..Len(ENTRIES) : WellFormed(ENTRIES, ENTRIES[i].message_id))
    /\ [][\A u \in Users, ch \in Channels, vs \in SlotChoices :
            (/\ "other" \in vs /\ Cardinality(vs) > 1
             /\ ~user_has_blocking_entries(u)
             /\ TimeSelectCallback(u, ch, vs))
            => /\ reply' = "other_alone"
               /\ ENTRIES' = ENTRIES
               /\ disk' = disk
               /\ chan' = chan
               /\ roster' = roster
               /\ tasks' = tasks
               /\ TEMP_ENTRY' = TEMP_ENTRY]_vars

\* one user registered under "other" with free text, and the other user's
\* pick of "other" with a second slot was rejected
C16_Witness ==
    /\ reply = "other_alone"
    /\ \E i \in 1..Len(ENTRIES) :
          ENTRIES[i].slot_key = "other" /\ ENTRIES[i].custom_time \in Texts
    /\ \E u \in Users : TEMP_ENTRY[u] # NoData /\ ~user_has_blocking_entries(u)

\* C17: at every suspension point the three files hold what is in memory:
\* the ledger, the control-message bindings (read back through
\* load_states) and the roster binding; and a restart, which loads the
\* files, leaves all three as they were in memory
C17_DurableEqualsMemory ==
    /\ [](/\ disk.entries = ENTRIES
          /\ load_sticky(disk.sticky) = STICKY_STATE
          /\ disk.schedule = SCHEDULE_STATE)
    /\ [][Restart => /\ ENTRIES' = ENTRIES
                     /\ STICKY_STATE' = STICKY_STATE
                     /\ SCHEDULE_STATE' = SCHEDULE_STATE]_vars

\* the startup tasks of a restart are pending, with a ledger holding a
\* record that is no longer active, a bound control message and a bound
\* roster loaded from the files
C17_Witness ==
    /\ \E t \in TaskIds : tasks[t].pc = "ready_sched"
    /\ \E t \in TaskIds : tasks[t].pc = "ready_sticky"
    /\ \E i \in 1..Len(ENTRIES) : ENTRIES[i].status = "no_response"
    /\ \E ch \in Channels : STICKY_STATE[ch] # 0 /\ KeyStr(ch) \in DOMAIN disk.sticky
    /\ SCHEDULE_STATE # 0

\* C18: across every step no record leaves the ledger or changes anything
\* but its status; a status changes only from active, and only to
\* interviewed, no_response or deleted; and records are appended only by
\* a registration (post_panel_and_confirm after its panel was sent), with
\* status active
C18_LifecycleMonotonic ==
    [][/\ Len(ENTRIES') >= Len(ENTRIES)
       /\ \A i \in 1..Len(ENTRIES) :
             /\ [ENTRIES'[i] EXCEPT !.status = ENTRIES[i].status] = ENTRIES[i]
             /\ ENTRIES'[i].status # ENTRIES[i].status
                => /\ ENTRIES[i].status = "active"
                   /\ ENTRIES'[i].status \in {"interviewed", "no_response", "deleted"}
       /\ Len(ENTRIES') > Len(ENTRIES)
          => /\ \E t \in TaskIds : tasks[t].kind = "post_panel" /\ PanelSendDone(t, "ok")
             /\ \A i \in (Len(ENTRIES) + 1)..Len(ENTRIES') : ENTRIES'[i].status = "active"]_vars

\* a deleted record and an interviewed record of a later registration are
\* in the ledger, and a restart has loaded them
C18_Witness ==
    /\ \E i, j \in 1..Len(ENTRIES) :
          /\ i < j
          /\ ENTRIES[i].status = "deleted"
          /\ ENTRIES[j].status = "interviewed"
    /\ \E t \in TaskIds : tasks[t].pc = "ready_sched"

\* C19: whenever no handler is in flight, every handler that changed the
\* ledger having completed with its platform calls succeeding, the bound
\* roster message shows the render of the current ledger
C19_RosterSynchronized ==
    AllIdle => Synced(ENTRIES)

\* C20: whenever a member's message is the last message of a bound channel,
\* the bound control message eventually is the last message of the channel
\* again (or the run has used up the message ids of the bound MaxId)
C20_EventuallyLast ==
    \A ch \in Channels :
        (/\ STICKY_STATE[ch] # 0
         /\ chan[ch] # <<>>
         /\ Last(chan[ch]).kind = "user")
        ~> (\/ Last(chan[ch]).id = STICKY_STATE[ch]
            \/ nextId > MaxId)

\* the /entry_panel handler in slot t returns in this step, its call having
\* succeeded
ArmEnds(t) ==
    /\ tasks[t].kind = "arm"
    /\ tasks'[t].kind = "idle"
    /\ \/ ArmRespondDone(t, "ok")
       \/ StickyHistoryDone(t, "ok")
       \/ StickySendDone(t, "ok")

\* C21: when /entry_panel, given on a channel without a binding, returns with
\* its platform calls having succeeded, the channel has a binding, saved in
\* the sticky file, and the bound control message is the last message of
\* the channel
C21_ArmPostsControlMessage ==
    [][\A t \in TaskIds :
          (ArmEnds(t) /\ STICKY_STATE[tasks[t].ch] = 0)
          => /\ STICKY_STATE'[tasks[t].ch] # 0
             /\ load_sticky(disk'.sticky) = STICKY_STATE'
             /\ chan'[tasks[t].ch] # <<>>
             /\ Last(chan'[tasks[t].ch]).id = STICKY_STATE'[tasks[t].ch]]_vars

\* the pass in slot t has fetched the history of a channel whose last
\* message is the bound control message
FindsBoundLast(t) ==
    LET ch == tasks[t].ch
    IN /\ tasks[t].pc = "sticky_history"
       /\ chan[ch] # <<>>
       /\ STICKY_STATE[ch] # 0
       /\ Last(chan[ch]).id = STICKY_STATE[ch]

\* C22: a pass (of a plain message, of /entry_panel, of the startup, of a
\* registration) that finds the bound control message to be the last message
\* of its channel leaves the pass there: it goes to no fetch, delete or send,
\* the channel's messages, the binding and the sticky file stay as they
\* are, and the lock is released
C22_AlreadyLastIsNoOp ==
    [][\A t \in TaskIds :
          (FindsBoundLast(t) /\ StickyHistoryDone(t, "ok"))
          => /\ tasks'[t].pc \notin StickyPcs
             /\ chan' = chan
             /\ nextId' = nextId
             /\ STICKY_STATE' = STICKY_STATE
             /\ disk' = disk
             /\ ~locked'[tasks[t].ch]]_vars

\* the startup pass of a restart is at its history fetch with the bound
\* control message last
C22_Witness ==
    \E t \in TaskIds : FindsBoundLast(t) /\ tasks[t].kind = "ready_sticky"

\* no handler is in flight and no channel's lock is held
Quiescent == AllIdle /\ \A ch \in Channels : ~locked[ch]

\* a message not written by a member (a bot's message, or the control
\* message posted by a pass) is appended to channel ch in this step
BotMessagePosted(ch) ==
    /\ Len(chan'[ch]) = Len(chan[ch]) + 1
    /\ Last(chan'[ch]).kind # "user"

\* C23: a message written by a bot, the control message of a pass included,
\* starts no handler and stamps no cooldown; and if from some point on no
\* user event happens (no message, no command, no clock tick), then from
\* some point on no handler is in flight and no lock is held
C23_ReconciliationSettles ==
    /\ [][\A ch \in Channels :
            BotMessagePosted(ch)
            => /\ \A t \in TaskIds : tasks[t].pc = "idle" => tasks'[t].pc = "idle"
               /\ cooldown' = cooldown]_vars
    /\ (<>[][~UserEvent]_vars => <>[]Quiescent)

\* the control message has just been posted by a pass that ran beside a
\* second handler, below a bot's message, and nothing is in flight any more
C23_Witness ==
    /\ Quiescent
    /\ \E ch \in Channels :
          /\ Len(chan[ch]) >= 3
          /\ Last(chan[ch]).kind = "sticky"
          /\ Last(chan[ch]).id = STICKY_STATE[ch]
          /\ \E i \in 1..Len(chan[ch]) : chan[ch][i].kind = "bot"
          /\ \E i \in 1..Len(chan[ch]) : chan[ch][i].kind = "user"

====
